---- MODULE Spec2Model ----
(***************************************************************************)
(* A model of the demonstration scripts of oshea00/openai-api:             *)
(*   - legacy_chat_text.py : tools_call_example, the two-phase tool        *)
(*     calling exchange (specification SpecTools);                         *)
(*   - completions.py : the document preprocessor, the message builders    *)
(*     and the three multimodal demonstrations of main (SpecDoc), and the  *)
(*     text-length bound of create_pdf_summary_messages (SpecBound).       *)
(* A Python dict is a record; keys a dict does not carry are padded with   *)
(* "" / <<>> so that all messages of a Conversation have one shape.        *)
(***************************************************************************)
EXTENDS Integers, Sequences, FiniteSets, TLC

VARIABLES
    pc,               \* position inside the function / script being run
    messages,         \* tools_call_example: the Conversation (local `messages`)
    response_message, \* tools_call_example: response.choices[0].message
    tool_idx,         \* tools_call_example: 1-based index of the for loop
    requests,         \* every client.chat.completions.create call, in order
    executed,         \* every get_weather invocation, in order
    stdout,           \* what print() wrote, in order
    raised,           \* the exception that escaped ("" when none)
    env,              \* completions.py: the files and libraries found on disk
    pdf_text,         \* create_pdf_summary_messages: extract_pdf_text's result
    pdf_messages,     \* main: create_pdf_summary_messages's result
    page_images,      \* rasterize_pdf_pages's result
    pdf_visual_messages, \* main: create_pdf_visual_summary_messages's result
    image_messages,   \* main: create_image_analysis_messages's result
    image_data_url,   \* create_image_analysis_messages: the encoder's result
    max_pages,        \* rasterize_pdf_pages: the max_pages argument
    bounded,          \* SpecBound: a text, then the results of bounding it
    script,           \* which script's main is running
    demo,             \* main: 1-based number of the current demonstration
    started,          \* main: the demonstrations entered so far, in order
    failures,         \* main: the demonstrations that raised, in order
    args,             \* responses_text.py: the parsed command line
    sys_stdout,       \* sys.stdout: where print() writes at this moment
    log_file,         \* responses_text.py: the log file, its state and content
    exit_status,      \* how the process ended ("running" until then)
    http_request,     \* LoggingHTTPClient.send: the request it was given
    forwarded,        \* LoggingHTTPClient.send: requests handed to super().send
    http_response,    \* LoggingHTTPClient.send: the transport's response
    response_output,  \* extract_reasoning_summary: response.output
    summary,          \* extract_reasoning_summary: the string returned
    in_flight,        \* gateway: a create call was issued and has not ended
    invocations,      \* gateway: the gateway functions invoked, in order
    returned,         \* gateway: how many create calls have returned
    now,              \* time.time(), in half milliseconds
    start,            \* timed_comparison_test: start_4o, then start_5
    total_4o_ms,      \* timed_comparison_test: total_4o_ms
    total_5_ms,       \* timed_comparison_test: total_5_ms
    run,              \* gateway: 1-based number of the caller's current call
    response_4o,      \* timed_comparison_test: response_4o
    response_5        \* timed_comparison_test: response_5

vars == <<pc, messages, response_message, tool_idx, requests, executed, stdout,
          raised, env, pdf_text, pdf_messages, page_images, pdf_visual_messages,
          image_messages, image_data_url, max_pages, bounded, script, demo,
          started, failures, args, sys_stdout, log_file, exit_status,
          http_request, forwarded, http_response, response_output, summary,
          in_flight, invocations, returned, now, start, total_4o_ms,
          total_5_ms, run, response_4o, response_5>>

toolVars == <<pc, messages, response_message, tool_idx, requests, executed,
              stdout, raised>>
docVars == <<env, pdf_text, pdf_messages, page_images, pdf_visual_messages,
             image_messages, image_data_url, max_pages>>
boundVars == <<bounded>>
scriptVars == <<script, demo, started, failures, args, sys_stdout, log_file,
                exit_status>>
httpVars == <<http_request, forwarded, http_response>>
summaryVars == <<response_output, summary>>
gatewayVars == <<in_flight, invocations, returned, now, start, total_4o_ms,
                 total_5_ms, run, response_4o, response_5>>
otherThanTools == <<docVars, boundVars, scriptVars, httpVars, summaryVars,
                    gatewayVars>>

\* The values the variables of a part of the program keep while another
\* part is the one being run.
IdleScript ==
    /\ script = ""
    /\ demo = 0
    /\ started = <<>>
    /\ failures = <<>>
    /\ args = [log_file |-> ""]
    /\ sys_stdout = "original_stdout"
    /\ log_file = [state |-> "absent", content |-> <<>>]
    /\ exit_status = "running"

IdleHttp ==
    /\ http_request = [method |-> "", url |-> "", headers |-> <<>>, content |-> ""]
    /\ forwarded = <<>>
    /\ http_response = [status_code |-> 0, headers |-> <<>>, body |-> ""]

IdleSummary ==
    /\ response_output = <<>>
    /\ summary = ""

IdleGateway ==
    /\ in_flight = FALSE
    /\ invocations = <<>>
    /\ returned = 0
    /\ now = 0
    /\ start = 0
    /\ total_4o_ms = 0
    /\ total_5_ms = 0
    /\ run = 0
    /\ response_4o = ""
    /\ response_5 = ""

-----------------------------------------------------------------------------
(* Bounds of the model.                                                    *)

\* the largest number of Tool Calls the first-pass result carries
MaxToolCalls == 2
\* the largest page count of a document whose pages may fail to rasterize
MaxPageCount == 4
\* the largest page count of a document whose page texts vary
MaxTextPages == 2
\* the largest max_pages a direct call of rasterize_pdf_pages is given
MaxCeiling == 3
\* the largest number of runs of a text the length bound is tried on
MaxRuns == 2
\* how many times in a row the length bound is applied to a text
MaxApplications == 2
MaxItems == 2
MaxFragments == 2
MaxHeaders == 2
MaxTick == 2

-----------------------------------------------------------------------------
(* Console output: one record per print() call; the values interpolated    *)
(* into the line are kept apart from its fixed wording.                    *)

Line(kind, s, n, m) == [kind |-> kind, s |-> s, n |-> n, m |-> m]

-----------------------------------------------------------------------------
(* legacy_chat_text.py : tools_call_example                                *)

\* the value of an absent message (before the first response arrives)
NoMessage == [role |-> "", content |-> "", tool_call_id |-> "", name |-> "",
              tool_calls |-> <<>>, has_tool_calls |-> FALSE]

\* messages = [{"role": "user", "content": "What's the weather like ..."}]
InitialMessages ==
    << [NoMessage EXCEPT !.role = "user",
          !.content = "What's the weather like in San Francisco, USA?"] >>

\* The serialized arguments of a Tool Call, as the remote API may send them:
\* a JSON text is modelled by the value it denotes, and a text that is no
\* JSON at all by kind "malformed".
ArgumentTexts ==
    { [kind |-> "object", has_city |-> TRUE, city |-> "San Francisco",
       has_country |-> TRUE, country |-> "USA"],
      [kind |-> "object", has_city |-> FALSE, city |-> "",
       has_country |-> TRUE, country |-> "USA"],
      [kind |-> "object", has_city |-> TRUE, city |-> "Paris",
       has_country |-> FALSE, country |-> ""],
      [kind |-> "array", has_city |-> FALSE, city |-> "",
       has_country |-> FALSE, country |-> ""],
      [kind |-> "malformed", has_city |-> FALSE, city |-> "",
       has_country |-> FALSE, country |-> ""] }

ToolCallIds == {"call_a", "call_b"}
ToolNames == {"get_weather", "get_time"}

ToolCalls == [id : ToolCallIds, name : ToolNames, arguments : ArgumentTexts]

SeqsUpTo(S, n) == UNION { [1..k -> S] : k \in 0..n }

\* The first-pass assistant messages the remote API may answer with:
\* tool_calls is None (has_tool_calls FALSE), or a list of Tool Calls.
FirstResponses ==
    { [NoMessage EXCEPT !.role = "assistant", !.content = "It is sunny."] }
    \cup
    { [NoMessage EXCEPT !.role = "assistant", !.content = "None",
          !.has_tool_calls = TRUE, !.tool_calls = tcs]
        : tcs \in SeqsUpTo(ToolCalls, MaxToolCalls) }

\* json.loads(tool_call.function.arguments)
JsonLoads(arguments) ==
    IF arguments.kind = "malformed"
    THEN [ok |-> FALSE, value |-> arguments]
    ELSE [ok |-> TRUE, value |-> arguments]

\* function_args["city"], function_args["country"]: a KeyError when the
\* key is absent, a TypeError when the value is no dict
Subscripts(function_args) ==
    IF function_args.kind # "object" THEN "TypeError"
    ELSE IF ~function_args.has_city \/ ~function_args.has_country
         THEN "KeyError"
         ELSE ""

\* (the temperature is written without its degree sign)
get_weather(city, country) ==
    [location |-> city \o ", " \o country, temperature |-> "72F",
     conditions |-> "Partly cloudy", humidity |-> "65%"]

\* json.dumps(function_response)
JsonDumps(d) ==
    "{\"location\": \"" \o d.location \o "\", \"temperature\": \""
      \o d.temperature \o "\", \"conditions\": \"" \o d.conditions
      \o "\", \"humidity\": \"" \o d.humidity \o "\"}"

\* a slip that takes every list, the empty one too, for Tool Calls
TruthyEmptyList(m) == m.has_tool_calls
\* `if tool_calls:` -- None and the empty list are both falsy
Truthy(m) == m.has_tool_calls /\ Len(m.tool_calls) > 0

\* the dict appended for one executed Tool Call
ToolResultMessage(tool_call, function_response) ==
    [NoMessage EXCEPT !.tool_call_id = tool_call.id, !.role = "tool",
        !.name = tool_call.name, !.content = JsonDumps(function_response)]

Request(model, msgs, with_tools) ==
    [model |-> model, messages |-> msgs, tools |-> with_tools]

\* response = client.chat.completions.create(model="gpt-4o", messages=messages,
\*     tools=tools, tool_choice="auto"); the call may fail
FirstCreate ==
    /\ pc = "start"
    /\ requests' = Append(requests, Request("gpt-4o", messages, TRUE))
    /\ \/ \E m \in FirstResponses :
             /\ response_message' = m
             /\ pc' = "responded"
             /\ raised' = raised
       \/ /\ pc' = "raised"
          /\ raised' = "APIError"
          /\ response_message' = response_message
    /\ UNCHANGED <<messages, tool_idx, executed, stdout>>

\* if tool_calls: messages.append(response_message) ... else: print(content)
Branch ==
    /\ pc = "responded"
    /\ IF Truthy(response_message)
       THEN /\ messages' = Append(messages, response_message)
            /\ tool_idx' = 1
            /\ pc' = "loop"
            /\ stdout' = stdout
       ELSE /\ stdout' = Append(stdout, Line("content", response_message.content, 0, 0))
            /\ pc' = "done"
            /\ UNCHANGED <<messages, tool_idx>>
    /\ UNCHANGED <<response_message, requests, executed, raised>>

\* an iteration that passes over a Tool Call it cannot execute
LoopBodySkipsFailure ==
    /\ pc = "loop"
    /\ tool_idx <= Len(response_message.tool_calls)
    /\ LET tool_call == response_message.tool_calls[tool_idx]
           function_name == tool_call.name
           loaded == JsonLoads(tool_call.arguments)
           function_args == loaded.value
       IN  /\ stdout' = Append(stdout, Line("Calling", function_name, 0, 0))
           /\ IF loaded.ok /\ function_name = "get_weather"
                 /\ Subscripts(function_args) = ""
              THEN /\ executed' = Append(executed,
                          <<function_args.city, function_args.country>>)
                   /\ messages' = Append(messages,
                          ToolResultMessage(tool_call,
                              get_weather(function_args.city,
                                          function_args.country)))
              ELSE UNCHANGED <<messages, executed>>
           /\ tool_idx' = tool_idx + 1
    /\ UNCHANGED <<pc, raised, response_message, requests>>

\* one iteration of `for tool_call in tool_calls:`
LoopBody ==
    /\ pc = "loop"
    /\ tool_idx <= Len(response_message.tool_calls)
    /\ LET tool_call == response_message.tool_calls[tool_idx]
           function_name == tool_call.name
           loaded == JsonLoads(tool_call.arguments)
           function_args == loaded.value
       IN  /\ stdout' = Append(stdout, Line("Calling", function_name, 0, 0))
           /\ IF ~loaded.ok
              THEN /\ pc' = "raised"
                   /\ raised' = "JSONDecodeError"
                   /\ UNCHANGED <<messages, tool_idx, executed>>
              ELSE IF function_name = "get_weather"
              THEN IF Subscripts(function_args) # ""
                   THEN /\ pc' = "raised"
                        /\ raised' = Subscripts(function_args)
                        /\ UNCHANGED <<messages, tool_idx, executed>>
                   ELSE /\ executed' = Append(executed,
                               <<function_args.city, function_args.country>>)
                        /\ messages' = Append(messages,
                               ToolResultMessage(tool_call,
                                   get_weather(function_args.city,
                                               function_args.country)))
                        /\ tool_idx' = tool_idx + 1
                        /\ UNCHANGED <<pc, raised>>
              ELSE /\ tool_idx' = tool_idx + 1
                   /\ UNCHANGED <<pc, raised, messages, executed>>
    /\ UNCHANGED <<response_message, requests>>

\* second_response = client.chat.completions.create(model="gpt-4o",
\*     messages=messages); print(second_response.choices[0].message.content)
SecondCreate ==
    /\ pc = "loop"
    /\ tool_idx > Len(response_message.tool_calls)
    /\ requests' = Append(requests, Request("gpt-4o", messages, FALSE))
    /\ \/ /\ stdout' = Append(stdout,
                         Line("content", "It is 72F and partly cloudy.", 0, 0))
          /\ pc' = "done"
          /\ raised' = raised
       \/ /\ pc' = "raised"
          /\ raised' = "APIError"
          /\ stdout' = stdout
    /\ UNCHANGED <<messages, response_message, tool_idx, executed>>

\* main: try: tools_call_example() except Exception as e:
\*     print(f"Error in tools_call_example: {e}"); print()
ReportToolsFailure ==
    /\ pc = "raised"
    /\ stdout' = stdout \o <<Line("Error in tools_call_example", raised, 0, 0),
                              Line("", "", 0, 0)>>
    /\ pc' = "reported"
    /\ UNCHANGED <<messages, response_message, tool_idx, requests, executed,
                   raised>>

-----------------------------------------------------------------------------
(* Specification of tools_call_example.                                    *)

IdleDoc ==
    [fitz |-> TRUE, pdf |-> [status |-> "missing", pages |-> <<>>],
     image |-> "missing"]

InitTools ==
    /\ pc = "start"
    /\ messages = InitialMessages
    /\ response_message = NoMessage
    /\ tool_idx = 0
    /\ requests = <<>>
    /\ executed = <<>>
    /\ stdout = <<>>
    /\ raised = ""
    /\ env = IdleDoc
    /\ pdf_text = <<>>
    /\ pdf_messages = <<>>
    /\ page_images = <<>>
    /\ pdf_visual_messages = <<>>
    /\ image_messages = <<>>
    /\ image_data_url = [mime |-> "", of |-> "", page |-> 0, dpi |-> 0]
    /\ max_pages = 0
    /\ bounded = <<>>
    /\ IdleScript /\ IdleHttp /\ IdleSummary /\ IdleGateway

NextTools ==
    \/ FirstCreate /\ UNCHANGED otherThanTools
    \/ Branch /\ UNCHANGED otherThanTools
    \/ LoopBody /\ UNCHANGED otherThanTools
    \/ SecondCreate /\ UNCHANGED otherThanTools
    \/ ReportToolsFailure /\ UNCHANGED otherThanTools

SpecTools == InitTools /\ [][NextTools]_vars

-----------------------------------------------------------------------------
(* Claims about tools_call_example, checked under SpecTools.               *)

\* the first-pass result has arrived
Responded == response_message.role = "assistant"
\* the Tool Calls the first-pass result carries (none when tool_calls is None)
CarriedCalls == response_message.tool_calls
\* the Tool Result messages of a Conversation, in order
ToolResults(msgs) == SelectSeq(msgs, LAMBDA m : m.role = "tool")
\* the for loop ran to its end without an exception
LoopFinished ==
    Responded /\ Len(CarriedCalls) >= 1 /\ tool_idx > Len(CarriedCalls)

\* C1: once the loop over N >= 1 Tool Calls has finished, exactly N Tool
\* Results have been appended, and the k-th carries the k-th Tool Call's
\* identifier, whatever tool names were requested.
C1_OneResultPerCallInOrder ==
    LoopFinished =>
        /\ Len(ToolResults(messages)) = Len(CarriedCalls)
        /\ \A k \in 1..Len(ToolResults(messages)) :
               k <= Len(CarriedCalls)
                 => ToolResults(messages)[k].tool_call_id = CarriedCalls[k].id

\* C2: the Conversation of the second gateway call is the first-pass
\* Conversation, then the assistant turn as issued, then the N Tool Results
\* (length: first-pass length + 1 + N), and no further call is issued.
C2_SecondPassConversation ==
    /\ Len(requests) <= 2
    /\ Len(requests) = 2 =>
          LET first == requests[1].messages
              second == requests[2].messages
              N == Len(CarriedCalls)
          IN  /\ Len(second) = Len(first) + 1 + N
              /\ SubSeq(second, 1, Len(first)) = first
              /\ second[Len(first) + 1] = response_message
              /\ \A k \in 1..N :
                     Len(first) + 1 + k <= Len(second)
                       => /\ second[Len(first) + 1 + k].role = "tool"
                          /\ second[Len(first) + 1 + k].tool_call_id
                                = CarriedCalls[k].id

\* C3: once the loop has passed a Tool Call whose name has no registered
\* callable, an UnknownTool error has been reported to the caller.
C3_UnknownToolReported ==
    \A k \in 1..Len(CarriedCalls) :
        (k < tool_idx /\ CarriedCalls[k].name # "get_weather")
            => raised = "UnknownTool"

\* C4: a first-pass result without Tool Calls (tool_calls None or empty)
\* leaves the Conversation as it was, runs no local tool, is followed by no
\* second gateway call, and its text is what gets printed.
C4_NoToolCallsNoOp ==
    (Responded /\ CarriedCalls = <<>>) =>
        /\ pc \in {"responded", "done"}
        /\ messages = InitialMessages
        /\ executed = <<>>
        /\ Len(requests) = 1
        /\ pc = "done" =>
              stdout = <<Line("content", response_message.content, 0, 0)>>

\* C4's case: the function has returned after a result without Tool Calls
C4_Witness ==
    /\ pc = "done"
    /\ Responded
    /\ CarriedCalls = <<>>
    /\ stdout # <<>>

-----------------------------------------------------------------------------
(* Python strings of completions.py.  A text is kept run-length encoded: a *)
(* sequence of runs [c, n] (n >= 1 copies of the character c) in which two *)
(* adjacent runs never share their character, so that equal texts have     *)
(* equal encodings and texts of 400000 characters stay small.              *)

RECURSIVE TextLen(_)
\* len(text)
TextLen(t) == IF t = <<>> THEN 0 ELSE t[1].n + TextLen(Tail(t))

\* a + b
Cat(a, b) ==
    IF a = <<>> THEN b
    ELSE IF b = <<>> THEN a
    ELSE IF a[Len(a)].c = b[1].c
    THEN SubSeq(a, 1, Len(a) - 1)
           \o <<[c |-> b[1].c, n |-> a[Len(a)].n + b[1].n]>> \o Tail(b)
    ELSE a \o b

RECURSIVE TakeText(_, _)
\* text[:k]
TakeText(t, k) ==
    IF k <= 0 \/ t = <<>> THEN <<>>
    ELSE IF t[1].n >= k THEN <<[c |-> t[1].c, n |-> k]>>
    ELSE <<t[1]>> \o TakeText(Tail(t), k - t[1].n)

RECURSIVE DropText(_, _)
\* text[k:]
DropText(t, k) ==
    IF k <= 0 \/ t = <<>> THEN t
    ELSE IF t[1].n > k THEN <<[c |-> t[1].c, n |-> t[1].n - k]>> \o Tail(t)
    ELSE DropText(Tail(t), k - t[1].n)

RECURSIVE FromChars(_)
\* the text spelled by a sequence of characters
FromChars(cs) ==
    IF cs = <<>> THEN <<>>
    ELSE Cat(<<[c |-> cs[1], n |-> 1]>>, FromChars(Tail(cs)))

IsSpace(c) == c \in {" ", "\n", "\t"}

RECURSIVE LStrip(_)
LStrip(t) == IF t # <<>> /\ IsSpace(t[1].c) THEN LStrip(Tail(t)) ELSE t

RECURSIVE RStrip(_)
RStrip(t) ==
    IF t # <<>> /\ IsSpace(t[Len(t)].c)
    THEN RStrip(SubSeq(t, 1, Len(t) - 1))
    ELSE t

\* text.strip()
Strip(t) == RStrip(LStrip(t))

RECURSIVE DecimalChars(_)
\* the characters of f"{n}" for n >= 0
DecimalChars(n) ==
    LET digit(d) == <<"0", "1", "2", "3", "4", "5", "6", "7", "8", "9">>[d + 1]
    IN  IF n < 10 THEN <<digit(n)>>
        ELSE DecimalChars(n \div 10) \o <<digit(n % 10)>>

\* f"\n--- Page {page_num + 1} ---\n"
PageMarker(number) ==
    FromChars(<<"\n", "-", "-", "-", " ", "P", "a", "g", "e", " ">>
              \o DecimalChars(number)
              \o <<" ", "-", "-", "-", "\n">>)

\* "\n\n[Content truncated due to length...]"
TruncationMarker ==
    FromChars(<<"\n", "\n", "[", "C", "o", "n", "t", "e", "n", "t", " ",
                "t", "r", "u", "n", "c", "a", "t", "e", "d", " ",
                "d", "u", "e", " ", "t", "o", " ",
                "l", "e", "n", "g", "t", "h", ".", ".", ".", "]">>)

\* max_chars = 400000
max_chars == 400000

\* a bound that also cuts a text of exactly max_chars characters
BoundTextOffByOne(t) ==
    IF TextLen(t) >= max_chars
    THEN Cat(TakeText(t, max_chars), TruncationMarker)
    ELSE t

\* a bound that keeps the end of the text instead of its start
BoundTextKeepsTail(t) ==
    IF TextLen(t) > max_chars
    THEN Cat(DropText(t, TextLen(t) - max_chars), TruncationMarker)
    ELSE t

\* if len(pdf_text) > max_chars:
\*     pdf_text = pdf_text[:max_chars] + "\n\n[Content truncated due to length...]"
BoundText(t) ==
    IF TextLen(t) > max_chars
    THEN Cat(TakeText(t, max_chars), TruncationMarker)
    ELSE t

-----------------------------------------------------------------------------
(* completions.py : the files on disk.                                     *)
(* env.fitz  : whether `import fitz` succeeded (fitz is not None)          *)
(* env.pdf   : status "missing" (no such file), "unreadable" (fitz.open or *)
(*             get_text raises) or "ok", and the pages of the document,    *)
(*             each with the text get_text() returns and whether           *)
(*             get_pixmap/tobytes succeed on it                            *)
(* env.image : status of the image file, as open()/read() find it          *)

Run(c, n) == <<[c |-> c, n |-> n]>>

\* page texts: none, a few characters, and lengths that bring a one-page
\* document to exactly max_chars characters and just beyond
PageTexts ==
    { <<>>, Run("a", 3), Run("a", max_chars - 15), Run("b", max_chars - 14) }

Page(t, ok) == [text |-> t, raster_ok |-> ok]

PagesOfDocuments ==
    SeqsUpTo({ Page(t, TRUE) : t \in PageTexts }, MaxTextPages)
    \cup SeqsUpTo({ Page(Run("a", 3), ok) : ok \in BOOLEAN }, MaxPageCount)

Pdfs ==
    { [status |-> "missing", pages |-> <<>>],
      [status |-> "unreadable", pages |-> <<>>] }
    \cup { [status |-> "ok", pages |-> ps] : ps \in PagesOfDocuments }

Envs == [fitz : BOOLEAN, pdf : Pdfs, image : {"missing", "unreadable", "ok"}]

pdf_path == "data/PyTorchCheatsheet.pdf"
image_path == "data/claude_tester.png"

\* the exception fitz.open(pdf_path) and the page reads raise, "" when none
OpenPdf(pdf) ==
    CASE pdf.status = "missing" -> "FileNotFoundError"
      [] pdf.status = "unreadable" -> "FileDataError"
      [] OTHER -> ""

\* the exception open(image_path, "rb") / read() raise, "" when none
OpenImage(image) ==
    CASE image = "missing" -> "FileNotFoundError"
      [] image = "unreadable" -> "PermissionError"
      [] OTHER -> ""

\* What a function call comes to: the value returned, the lines printed and
\* the exception that escaped it ("" when it returned).
Returned(value, out) == [value |-> value, out |-> out, exc |-> ""]

RECURSIVE PagesText(_, _)
\* the for loop of extract_pdf_text, from page_num (0-based) on
PagesText(pages, page_num) ==
    IF page_num >= Len(pages) THEN <<>>
    ELSE Cat(Cat(PageMarker(page_num + 1), pages[page_num + 1].text),
             PagesText(pages, page_num + 1))

extract_pdf_text(e) ==
    IF ~e.fitz
    THEN Returned(<<>>,
             <<Line("pymupdf is required for PDF text extraction", "", 0, 0)>>)
    ELSE IF OpenPdf(e.pdf) # ""
    THEN \* except Exception as e
         Returned(<<>>,
             <<Line("Error extracting text from PDF", OpenPdf(e.pdf), 0, 0)>>)
    ELSE Returned(Strip(PagesText(e.pdf.pages, 0)), <<>>)

\* f"data:image/png;base64,{png_base64}" for the PNG of one page at a
\* resolution; the encoded bytes are named by what they render
PageDataUrl(page_number, dpi) ==
    [mime |-> "image/png", of |-> pdf_path, page |-> page_number, dpi |-> dpi]

Min(a, b) == IF a < b THEN a ELSE b

RECURSIVE RasterizeLoopStopsAtFailure(_, _, _, _)
\* a loop that gives up at the first page that fails
RasterizeLoopStopsAtFailure(pages, page_num, num_pages, dpi) ==
    IF page_num >= num_pages THEN Returned(<<>>, <<>>)
    ELSE IF pages[page_num + 1].raster_ok
    THEN LET rest == RasterizeLoopStopsAtFailure(pages, page_num + 1,
                                                 num_pages, dpi)
         IN  Returned(<<PageDataUrl(page_num + 1, dpi)>> \o rest.value,
                 <<Line("Rasterized page", "", page_num + 1, num_pages)>>
                   \o rest.out)
    ELSE Returned(<<>>,
             <<Line("Error processing page", "RuntimeError",
                    page_num + 1, 0)>>)

RECURSIVE RasterizeLoop(_, _, _, _)
\* `for page_num in range(num_pages):` from page_num (0-based) on, with its
\* inner try/except ... continue
RasterizeLoop(pages, page_num, num_pages, dpi) ==
    IF page_num >= num_pages THEN Returned(<<>>, <<>>)
    ELSE LET rest == RasterizeLoop(pages, page_num + 1, num_pages, dpi)
         IN  IF pages[page_num + 1].raster_ok
             THEN Returned(<<PageDataUrl(page_num + 1, dpi)>> \o rest.value,
                      <<Line("Rasterized page", "", page_num + 1, num_pages)>>
                        \o rest.out)
             ELSE Returned(rest.value,
                      <<Line("Error processing page", "RuntimeError",
                             page_num + 1, 0)>> \o rest.out)

\* a ceiling that lets one page too many through
NumPagesOffByOne(page_count, mp) == Min(page_count, mp + 1)

\* num_pages = min(doc.page_count, max_pages)
NumPages(page_count, mp) == Min(page_count, mp)

rasterize_pdf_pages(e, dpi, mp) ==
    IF ~e.fitz
    THEN Returned(<<>>,
             <<Line("pymupdf is required for PDF rasterization", "", 0, 0)>>)
    ELSE IF OpenPdf(e.pdf) # ""
    THEN \* except Exception as e
         Returned(<<>>, <<Line("Error rasterizing PDF", OpenPdf(e.pdf), 0, 0)>>)
    ELSE LET num_pages == NumPages(Len(e.pdf.pages), mp)
             loop == RasterizeLoop(e.pdf.pages, 0, num_pages, dpi)
         IN  Returned(loop.value,
                 loop.out \o
                 (IF num_pages < Len(e.pdf.pages)
                  THEN <<Line("Limited to first", "", mp, 0)>>
                  ELSE <<>>))

-----------------------------------------------------------------------------
(* completions.py : the message builders.                                  *)

\* one message of a Conversation; a string content is named by its kind
DocMessage(role, kind, path, text, images) ==
    [role |-> role,
     content |-> [kind |-> kind, path |-> path, text |-> text,
                  images |-> images]]

\* {"type": "image_url", "image_url": {"url": image_data_url, "detail": "high"}}
ImagePart(url) == [type |-> "image_url", url |-> url, detail |-> "high"]

\* the empty string, where a data URL is expected
NoDataUrl == [mime |-> "", of |-> "", page |-> 0, dpi |-> 0]

\* the media type encode_image_to_base64 derives from the file extension
MimeOf(ext) ==
    CASE ext = "png" -> "image/png"
      [] ext \in {"jpg", "jpeg"} -> "image/jpeg"
      [] ext = "gif" -> "image/gif"
      [] OTHER -> "image/png"

encode_image_to_base64(e) ==
    IF OpenImage(e.image) # ""
    THEN \* except Exception as e
         Returned(NoDataUrl,
             <<Line("Error encoding image", OpenImage(e.image), 0, 0)>>)
    ELSE Returned([mime |-> MimeOf("png"), of |-> image_path, page |-> 0,
                   dpi |-> 0], <<>>)

\* a builder that goes on with whatever the extraction returned
create_pdf_summary_messages_unchecked(e) ==
    LET extracted == extract_pdf_text(e)
    IN  [value |-> <<DocMessage("system", "summary system prompt", "",
                                <<>>, <<>>),
                     DocMessage("user", "summary prompt", pdf_path,
                                BoundText(extracted.value), <<>>)>>,
         out |-> extracted.out, exc |-> "", pdf_text |-> extracted.value]

\* Each builder also hands back the local its preprocessor call assigned
\* (pdf_text, page_images, image_data_url).
create_pdf_summary_messages(e) ==
    LET extracted == extract_pdf_text(e)
    IN  IF extracted.exc = "FileNotFoundError"
        THEN [value |-> <<>>, exc |-> "", pdf_text |-> <<>>,
              out |-> extracted.out
                        \o <<Line("PDF file not found", pdf_path, 0, 0)>>]
        ELSE IF extracted.exc # ""
        THEN [value |-> <<>>, exc |-> "", pdf_text |-> <<>>,
              out |-> extracted.out
                        \o <<Line("Error processing PDF file",
                                  extracted.exc, 0, 0)>>]
        ELSE IF extracted.value = <<>>
        THEN [value |-> <<>>, exc |-> "", pdf_text |-> extracted.value,
              out |-> extracted.out
                        \o <<Line("No text could be extracted from",
                                  pdf_path, 0, 0)>>]
        ELSE [value |-> <<DocMessage("system", "summary system prompt", "",
                                     <<>>, <<>>),
                          DocMessage("user", "summary prompt", pdf_path,
                                     BoundText(extracted.value), <<>>)>>,
              out |-> extracted.out, exc |-> "",
              pdf_text |-> extracted.value]

\* dpi=150, max_pages=3 of create_pdf_visual_summary_messages
visual_dpi == 150
visual_max_pages == 3

RECURSIVE ImageParts(_)
\* for i, image_data_url in enumerate(page_images): content.append(...)
ImageParts(urls) ==
    IF urls = <<>> THEN <<>>
    ELSE <<ImagePart(urls[1])>> \o ImageParts(Tail(urls))

create_pdf_visual_summary_messages(e) ==
    LET rasterized == rasterize_pdf_pages(e, visual_dpi, visual_max_pages)
    IN  IF rasterized.exc = "FileNotFoundError"
        THEN [value |-> <<>>, exc |-> "", page_images |-> <<>>,
              out |-> rasterized.out
                        \o <<Line("PDF file not found", pdf_path, 0, 0)>>]
        ELSE IF rasterized.exc # ""
        THEN [value |-> <<>>, exc |-> "", page_images |-> <<>>,
              out |-> rasterized.out
                        \o <<Line("Error processing PDF file for visual analysis",
                                  rasterized.exc, 0, 0)>>]
        ELSE IF rasterized.value = <<>>
        THEN [value |-> <<>>, exc |-> "", page_images |-> rasterized.value,
              out |-> rasterized.out
                        \o <<Line("Could not rasterize pages from",
                                  pdf_path, 0, 0)>>]
        ELSE [value |-> <<DocMessage("system", "visual system prompt", "",
                                     <<>>, <<>>),
                          DocMessage("user", "visual prompt", pdf_path, <<>>,
                                     ImageParts(rasterized.value))>>,
              out |-> rasterized.out, exc |-> "",
              page_images |-> rasterized.value]

create_image_analysis_messages(e) ==
    LET encoded == encode_image_to_base64(e)
    IN  IF encoded.exc = "FileNotFoundError"
        THEN [value |-> <<>>, exc |-> "", image_data_url |-> NoDataUrl,
              out |-> encoded.out
                        \o <<Line("Image file not found", image_path, 0, 0)>>]
        ELSE IF encoded.exc # ""
        THEN [value |-> <<>>, exc |-> "", image_data_url |-> NoDataUrl,
              out |-> encoded.out
                        \o <<Line("Error processing image file",
                                  encoded.exc, 0, 0)>>]
        ELSE IF encoded.value = NoDataUrl
        THEN [value |-> <<>>, exc |-> "", image_data_url |-> encoded.value,
              out |-> encoded.out
                        \o <<Line("Could not encode image", image_path, 0, 0)>>]
        ELSE [value |-> <<DocMessage("system", "vision system prompt", "",
                                     <<>>, <<>>),
                          DocMessage("user", "image prompt", "", <<>>,
                                     <<ImagePart(encoded.value)>>)>>,
              out |-> encoded.out, exc |-> "",
              image_data_url |-> encoded.value]

-----------------------------------------------------------------------------
(* completions.py : the multimodal demonstrations of main, and a direct    *)
(* call of rasterize_pdf_pages.                                            *)

\* client.chat.completions.create(model="gpt-4.1-mini", messages=messages,
\*     temperature=0), as get_completion_4_multimodal issues it
MultimodalRequest(msgs) ==
    [model |-> "gpt-4.1-mini", messages |-> msgs, temperature |-> 0]

\* One demonstration of main: the heading and the path line, the builder,
\* then the gateway call when the Conversation is non-empty (it returns, or
\* raises into main's `except Exception`), else the "could not" line.
Demonstration(heading, doing, path, built, analyzing, result, could_not, error_in) ==
    \E gateway_ok \in BOOLEAN :
        /\ requests' = IF built.value # <<>>
                       THEN Append(requests, MultimodalRequest(built.value))
                       ELSE requests
        /\ stdout' =
             stdout \o <<Line(heading, "", 0, 0), Line(doing, path, 0, 0)>>
                    \o built.out
                    \o (IF built.value = <<>>
                        THEN <<Line(could_not, "", 0, 0), Line("", "", 0, 0)>>
                        ELSE IF gateway_ok
                        THEN <<Line(analyzing, "", 0, 0), Line(result, "", 0, 0),
                               Line("content", "response.content", 0, 0),
                               Line("", "", 0, 0)>>
                        ELSE <<Line(analyzing, "", 0, 0),
                               Line(error_in, "APIError", 0, 0),
                               Line("", "", 0, 0)>>)

\* main, "=== GPT-4.1-mini PDF Text Analysis ==="
MainPdfText ==
    /\ pc = "pdf_text"
    /\ LET built == create_pdf_summary_messages(env)
       IN  /\ Demonstration("=== GPT-4.1-mini PDF Text Analysis ===",
                  "Extracting text from", pdf_path, built,
                  "Analyzing extracted PDF content...", "PDF Analysis Result:",
                  "Could not extract text from PDF document",
                  "Error in PDF text analysis")
           /\ pdf_messages' = built.value
           /\ pdf_text' = built.pdf_text
    /\ pc' = "pdf_visual"
    /\ UNCHANGED <<page_images, pdf_visual_messages, image_messages,
                   image_data_url, max_pages, env>>

\* main, "=== GPT-4.1-mini PDF Visual Analysis ==="
MainPdfVisual ==
    /\ pc = "pdf_visual"
    /\ LET built == create_pdf_visual_summary_messages(env)
       IN  /\ Demonstration("=== GPT-4.1-mini PDF Visual Analysis ===",
                  "Converting PDF pages to images", pdf_path, built,
                  "Analyzing PDF pages as images...",
                  "PDF Visual Analysis Result:",
                  "Could not rasterize PDF pages for visual analysis",
                  "Error in PDF visual analysis")
           /\ pdf_visual_messages' = built.value
           /\ page_images' = built.page_images
    /\ max_pages' = visual_max_pages
    /\ pc' = "image"
    /\ UNCHANGED <<pdf_text, pdf_messages, image_messages, image_data_url,
                   env>>

\* main, "=== GPT-4.1-mini Image Analysis ==="
MainImage ==
    /\ pc = "image"
    /\ LET built == create_image_analysis_messages(env)
       IN  /\ Demonstration("=== GPT-4.1-mini Image Analysis ===",
                  "Analyzing image", image_path, built,
                  "Analyzing image content...", "Image Analysis Result:",
                  "Could not load and encode image",
                  "Error in image analysis")
           /\ image_messages' = built.value
           /\ image_data_url' = built.image_data_url
    /\ pc' = "done"
    /\ UNCHANGED <<pdf_text, pdf_messages, page_images, pdf_visual_messages,
                   max_pages, env>>

\* dpi: int = 150, the default of rasterize_pdf_pages
default_dpi == 150

\* rasterize_pdf_pages(pdf_path, max_pages=mp), called on its own
Rasterize ==
    /\ pc = "rasterize"
    /\ \E mp \in 0..MaxCeiling :
          LET rasterized == rasterize_pdf_pages(env, default_dpi, mp)
          IN  /\ page_images' = rasterized.value
              /\ stdout' = stdout \o rasterized.out
              /\ max_pages' = mp
    /\ pc' = "returned"
    /\ UNCHANGED <<pdf_text, pdf_messages, pdf_visual_messages, image_messages,
                   image_data_url, requests, env>>

InitDoc ==
    /\ pc \in {"pdf_text", "rasterize"}
    /\ env \in Envs
    /\ messages = <<>>
    /\ response_message = NoMessage
    /\ tool_idx = 0
    /\ requests = <<>>
    /\ executed = <<>>
    /\ stdout = <<>>
    /\ raised = ""
    /\ pdf_text = <<>>
    /\ pdf_messages = <<>>
    /\ page_images = <<>>
    /\ pdf_visual_messages = <<>>
    /\ image_messages = <<>>
    /\ image_data_url = NoDataUrl
    /\ max_pages = 0
    /\ bounded = <<>>
    /\ IdleScript /\ IdleHttp /\ IdleSummary /\ IdleGateway

NextDoc ==
    \/ MainPdfText
         /\ UNCHANGED <<messages, response_message, tool_idx, executed, raised,
                        bounded, scriptVars, httpVars, summaryVars,
                        gatewayVars>>
    \/ MainPdfVisual
         /\ UNCHANGED <<messages, response_message, tool_idx, executed, raised,
                        bounded, scriptVars, httpVars, summaryVars,
                        gatewayVars>>
    \/ MainImage
         /\ UNCHANGED <<messages, response_message, tool_idx, executed, raised,
                        bounded, scriptVars, httpVars, summaryVars,
                        gatewayVars>>
    \/ Rasterize
         /\ UNCHANGED <<messages, response_message, tool_idx, executed, raised,
                        bounded, scriptVars, httpVars, summaryVars,
                        gatewayVars>>

SpecDoc == InitDoc /\ [][NextDoc]_vars

-----------------------------------------------------------------------------
(* Claims about the document preprocessor, the message builders and main,  *)
(* checked under SpecDoc.                                                  *)

HasLine(kind) == \E i \in 1..Len(stdout) : stdout[i].kind = kind
\* the positions in stdout of the lines of one kind
LinesOf(kind) == { i \in 1..Len(stdout) : stdout[i].kind = kind }
\* the gateway calls whose Conversation carries a user prompt of one kind
RequestsOf(kind) ==
    { i \in 1..Len(requests) : requests[i].messages[2].content.kind = kind }

PdfTextRan == pc \in {"pdf_visual", "image", "done"}
PdfVisualRan == pc \in {"image", "done"}
ImageRan == pc = "done"
\* rasterize_pdf_pages has returned, called on its own or by the visual builder
RasterizeRan == pc \in {"returned", "image", "done"}
\* ... and it got as far as opening the document
RasterizedDocument ==
    RasterizeRan /\ env.fitz /\ env.pdf.status = "ok"

\* C5: whenever the preprocessor's result is empty, the builder's
\* Conversation is empty, nothing was raised into main, and main issued no
\* gateway call for that demonstration (text, visual and image path).
C5_EmptySourceEmptyConversationNoCall ==
    /\ (PdfTextRan /\ pdf_text = <<>>) =>
          /\ pdf_messages = <<>>
          /\ RequestsOf("summary prompt") = {}
          /\ ~HasLine("Error in PDF text analysis")
          /\ HasLine("Could not extract text from PDF document")
    /\ (PdfVisualRan /\ page_images = <<>>) =>
          /\ pdf_visual_messages = <<>>
          /\ RequestsOf("visual prompt") = {}
          /\ ~HasLine("Error in PDF visual analysis")
          /\ HasLine("Could not rasterize PDF pages for visual analysis")
    /\ (ImageRan /\ image_data_url = NoDataUrl) =>
          /\ image_messages = <<>>
          /\ RequestsOf("image prompt") = {}
          /\ ~HasLine("Error in image analysis")
          /\ HasLine("Could not load and encode image")

\* C5's case: main ran to its end on a readable document of zero pages and
\* a missing image, and called the gateway for none of the three
C5_Witness ==
    /\ pc = "done"
    /\ env.fitz
    /\ env.pdf.status = "ok"
    /\ env.pdf.pages = <<>>
    /\ env.image = "missing"
    /\ pdf_messages = <<>>
    /\ pdf_visual_messages = <<>>
    /\ image_messages = <<>>
    /\ requests = <<>>

C8_MissingFileReportedAsNotFound ==
    /\ (PdfTextRan /\ env.fitz /\ env.pdf.status = "missing") =>
          /\ HasLine("PDF file not found")
          /\ ~HasLine("Error extracting text from PDF")
    /\ (PdfVisualRan /\ env.fitz /\ env.pdf.status = "missing") =>
          /\ HasLine("PDF file not found")
          /\ ~HasLine("Error rasterizing PDF")
    /\ (ImageRan /\ env.image = "missing") =>
          /\ HasLine("Image file not found")
          /\ ~HasLine("Error encoding image")

\* the text embedded in the user message of the text-mode Conversation
EmbeddedText == pdf_messages[2].content.text

\* C9: extracted text of at most 400000 characters is embedded unchanged;
\* longer text is embedded as its first 400000 characters followed by the
\* truncation marker; the embedded text differs from the extracted text
\* exactly when content was cut.
C9_TruncatedToCeilingWithMarker ==
    (PdfTextRan /\ pdf_messages # <<>>) =>
        /\ TextLen(pdf_text) <= max_chars => EmbeddedText = pdf_text
        /\ TextLen(pdf_text) > max_chars =>
              /\ TextLen(EmbeddedText) = max_chars + TextLen(TruncationMarker)
              /\ TakeText(EmbeddedText, max_chars) = TakeText(pdf_text, max_chars)
              /\ DropText(EmbeddedText, max_chars) = TruncationMarker
        /\ (EmbeddedText # pdf_text) <=> (TextLen(pdf_text) > max_chars)

\* C9's case: a document whose extracted text exceeds the ceiling was embedded
C9_Witness ==
    /\ PdfTextRan
    /\ pdf_messages # <<>>
    /\ TextLen(pdf_text) > max_chars
    /\ EmbeddedText # pdf_text

-----------------------------------------------------------------------------
(* The text-length bound applied over and over (SpecBound).                *)

RunLengths ==
    { 1, TextLen(TruncationMarker), max_chars - TextLen(TruncationMarker),
      max_chars - 1, max_chars, max_chars + 1 }

\* the texts of at most MaxRuns runs over two characters
BoundInputs ==
    { t \in SeqsUpTo([c : {"a", "b"}, n : RunLengths], MaxRuns) :
        \A i \in 1..(Len(t) - 1) : t[i].c # t[i + 1].c }

\* pdf_text = bound(pdf_text), once more
ApplyBound ==
    /\ Len(bounded) <= MaxApplications
    /\ bounded' = Append(bounded, BoundText(bounded[Len(bounded)]))

InitBound ==
    /\ pc = "bound"
    /\ env = IdleDoc
    /\ messages = <<>>
    /\ response_message = NoMessage
    /\ tool_idx = 0
    /\ requests = <<>>
    /\ executed = <<>>
    /\ stdout = <<>>
    /\ raised = ""
    /\ pdf_text = <<>>
    /\ pdf_messages = <<>>
    /\ page_images = <<>>
    /\ pdf_visual_messages = <<>>
    /\ image_messages = <<>>
    /\ image_data_url = NoDataUrl
    /\ max_pages = 0
    /\ \E t \in BoundInputs : bounded = <<t>>
    /\ IdleScript /\ IdleHttp /\ IdleSummary /\ IdleGateway

NextBound ==
    ApplyBound /\ UNCHANGED <<toolVars, docVars, scriptVars, httpVars,
                               summaryVars, gatewayVars>>

SpecBound == InitBound /\ [][NextBound]_vars

\* C10: bounding an already bounded text changes nothing:
\* bound(bound(t)) = bound(t).
C10_BoundIdempotent ==
    \A i \in 2..(Len(bounded) - 1) : bounded[i + 1] = bounded[i]

\* C10's case: a text was cut by the bound, and the bound applied again
C10_Witness ==
    /\ Len(bounded) >= 3
    /\ bounded[2] # bounded[1]
    /\ TextLen(bounded[2]) > max_chars

-----------------------------------------------------------------------------
(* The scripts' main functions and entry points (SpecScript).  A           *)
(* demonstration is taken for what main sees of it: it prints and returns, *)
(* or it raises an Exception; a KeyboardInterrupt may arrive while it runs *)
(* and a print() to the log file may fail with an OSError.                 *)

Scripts == {"legacy_chat_text.py", "responses_text.py", "completions.py"}

\* the demonstrations of each main, by the name its error line gives them
Demonstrations(s) ==
    CASE s = "legacy_chat_text.py" ->
           <<"basic_text_chat", "structured_response_model",
             "structured_response_json_mode", "structure_response_text",
             "tools_call_example">>
      [] s = "responses_text.py" ->
           <<"basic_text_chat", "structured_response_model",
             "structured_response_json_mode", "structure_response_text",
             "response_with_reasoning">>
      [] s = "completions.py" ->
           <<"get_completion_4", "get_completion_5_oneshot",
             "PDF text analysis", "PDF visual analysis", "image analysis">>
      [] OTHER -> <<>>

\* client = OpenAI(http_client=LoggingHTTPClient()) or client = OpenAI()
LogsHttp(s) == s \in {"legacy_chat_text.py", "responses_text.py"}

\* parser.add_argument("--log-file", "-l", type=str): None, a path that can
\* be opened for writing, a path that cannot
LogFileArguments == {"", "run.log", "no_such_dir/run.log"}
CanOpen(path) == path = "run.log"

\* `if args.log_file:` of responses_text.py; the other scripts take no flag
Redirects == script = "responses_text.py" /\ args.log_file # ""

\* print(): the lines go where sys.stdout points at the moment of the call
print(lines) ==
    IF sys_stdout = "original_stdout"
    THEN /\ stdout' = stdout \o lines
         /\ log_file' = log_file
    ELSE /\ log_file' = [log_file EXCEPT !.content = @ \o lines]
         /\ stdout' = stdout

\* `else: main()`, and the __main__ blocks of the scripts without a flag
EntryWithoutLog ==
    /\ pc = "entry"
    /\ ~Redirects
    /\ pc' = "main"
    /\ demo' = 1
    /\ UNCHANGED <<script, started, failures, args, sys_stdout, log_file,
                   exit_status, stdout, raised>>

\* an entry that opens the log file and leaves sys.stdout as it was
EntryWithLogNoRedirect ==
    /\ pc = "entry"
    /\ Redirects
    /\ IF CanOpen(args.log_file)
       THEN /\ log_file' = [state |-> "open", content |-> <<>>]
            /\ pc' = "main"
            /\ demo' = 1
            /\ raised' = raised
       ELSE /\ raised' = "OSError"
            /\ pc' = "escaped"
            /\ UNCHANGED <<log_file, demo>>
    /\ UNCHANGED <<script, started, failures, args, sys_stdout, exit_status,
                   stdout>>

\* original_stdout = sys.stdout; with open(args.log_file, "w", ...) as
\* log_file: sys.stdout = log_file; main()
EntryWithLog ==
    /\ pc = "entry"
    /\ Redirects
    /\ IF CanOpen(args.log_file)
       THEN /\ log_file' = [state |-> "open", content |-> <<>>]
            /\ sys_stdout' = "log_file"
            /\ pc' = "main"
            /\ demo' = 1
            /\ raised' = raised
       ELSE /\ raised' = "OSError"
            /\ pc' = "escaped"
            /\ UNCHANGED <<log_file, sys_stdout, demo>>
    /\ UNCHANGED <<script, started, failures, args, exit_status, stdout>>

\* print("=== ... ==="); try: -- the heading is printed outside the try
StartDemonstration ==
    /\ pc = "main"
    /\ demo <= Len(Demonstrations(script))
    /\ print(<<Line("heading", Demonstrations(script)[demo], 0, 0)>>)
    /\ started' = Append(started, Demonstrations(script)[demo])
    /\ pc' = "demo"
    /\ UNCHANGED <<script, demo, failures, args, sys_stdout, exit_status,
                   raised>>

\* the heading's print() fails on the log file: the OSError leaves main
HeadingWriteFails ==
    /\ pc = "main"
    /\ demo <= Len(Demonstrations(script))
    /\ sys_stdout = "log_file"
    /\ raised' = "OSError"
    /\ pc' = "escaped"
    /\ UNCHANGED <<script, demo, started, failures, args, sys_stdout,
                   log_file, exit_status, stdout>>

\* the lines LoggingHTTPClient.send prints around an exchange
HttpLog(s, answered) ==
    IF ~LogsHttp(s) THEN <<>>
    ELSE IF answered
    THEN <<Line("REQUEST DETAILS:", "", 0, 0), Line("RESPONSE DETAILS:", "", 0, 0)>>
    ELSE <<Line("REQUEST DETAILS:", "", 0, 0)>>

\* the demonstration prints what it obtained and returns
DemonstrationReturns ==
    /\ pc = "demo"
    /\ print(HttpLog(script, TRUE)
               \o <<Line("output", Demonstrations(script)[demo], 0, 0)>>)
    /\ demo' = demo + 1
    /\ pc' = "main"
    /\ UNCHANGED <<script, started, failures, args, sys_stdout, exit_status,
                   raised>>

\* a handler that lets the failure end main
DemonstrationRaisesAndEndsMain ==
    /\ pc = "demo"
    /\ print(HttpLog(script, FALSE)
               \o <<Line("Error in", Demonstrations(script)[demo], 0, 0),
                    Line("", "", 0, 0)>>)
    /\ failures' = Append(failures, Demonstrations(script)[demo])
    /\ pc' = "main_returned"
    /\ UNCHANGED <<script, demo, started, args, sys_stdout, exit_status,
                   raised>>

\* except Exception as e: print(f"Error in <name>: {e}"); print()
DemonstrationRaises ==
    /\ pc = "demo"
    /\ print(HttpLog(script, FALSE)
               \o <<Line("Error in", Demonstrations(script)[demo], 0, 0),
                    Line("", "", 0, 0)>>)
    /\ failures' = Append(failures, Demonstrations(script)[demo])
    /\ demo' = demo + 1
    /\ pc' = "main"
    /\ UNCHANGED <<script, started, args, sys_stdout, exit_status, raised>>

\* a KeyboardInterrupt is no Exception: no handler of main catches it
DemonstrationInterrupted ==
    /\ pc = "demo"
    /\ raised' = "KeyboardInterrupt"
    /\ pc' = "escaped"
    /\ UNCHANGED <<script, demo, started, failures, args, sys_stdout,
                   log_file, exit_status, stdout>>

\* main falls off its end
MainReturns ==
    /\ pc = "main"
    /\ demo > Len(Demonstrations(script))
    /\ pc' = "main_returned"
    /\ UNCHANGED <<script, demo, started, failures, args, sys_stdout,
                   log_file, exit_status, stdout, raised>>

\* the with block closes the file, `finally` restores sys.stdout, and
\* print(f"Output written to: {args.log_file}") follows; without the flag
\* the script just ends
ExitAfterMain ==
    /\ pc = "main_returned"
    /\ IF Redirects
       THEN /\ log_file' = [log_file EXCEPT !.state = "closed"]
            /\ sys_stdout' = "original_stdout"
            /\ stdout' = Append(stdout,
                                Line("Output written to", args.log_file, 0, 0))
       ELSE UNCHANGED <<log_file, sys_stdout, stdout>>
    /\ exit_status' = "0"
    /\ pc' = "exited"
    /\ UNCHANGED <<script, demo, started, failures, args, raised>>

IsException(e) == e # "KeyboardInterrupt"

\* an `except Exception` clause without its sys.exit(1)
ExitOnExceptionFallsThrough ==
    /\ pc = "escaped"
    /\ IF Redirects
       THEN /\ log_file' = IF log_file.state = "open"
                           THEN [log_file EXCEPT !.state = "closed"]
                           ELSE log_file
            /\ sys_stdout' = "original_stdout"
            /\ IF IsException(raised)
               THEN /\ stdout' = stdout
                        \o <<Line("Error writing to log file", raised, 0, 0),
                             Line("Output written to", args.log_file, 0, 0)>>
                    /\ exit_status' = "0"
               ELSE /\ stdout' = stdout
                    /\ exit_status' = raised
       ELSE /\ exit_status' = raised
            /\ UNCHANGED <<log_file, sys_stdout, stdout>>
    /\ pc' = "exited"
    /\ UNCHANGED <<script, demo, started, failures, args, raised>>

\* An exception leaves the with block: the file, if open, is closed;
\* `except Exception` restores sys.stdout, prints the error and calls
\* sys.exit(1); `finally` restores sys.stdout whatever was raised.  Without
\* the flag the exception ends the script.
ExitOnException ==
    /\ pc = "escaped"
    /\ IF Redirects
       THEN /\ log_file' = IF log_file.state = "open"
                           THEN [log_file EXCEPT !.state = "closed"]
                           ELSE log_file
            /\ sys_stdout' = "original_stdout"
            /\ IF IsException(raised)
               THEN /\ stdout' = Append(stdout,
                          Line("Error writing to log file", raised, 0, 0))
                    /\ exit_status' = "1"
               ELSE /\ stdout' = stdout
                    /\ exit_status' = raised
       ELSE /\ exit_status' = raised
            /\ UNCHANGED <<log_file, sys_stdout, stdout>>
    /\ pc' = "exited"
    /\ UNCHANGED <<script, demo, started, failures, args, raised>>

otherThanScript ==
    <<messages, response_message, tool_idx, requests, executed, docVars,
      boundVars, httpVars, summaryVars, gatewayVars>>

InitScript ==
    /\ pc = "entry"
    /\ script \in Scripts
    /\ args \in [log_file : LogFileArguments]
    /\ script # "responses_text.py" => args.log_file = ""
    /\ demo = 0
    /\ started = <<>>
    /\ failures = <<>>
    /\ sys_stdout = "original_stdout"
    /\ log_file = [state |-> "absent", content |-> <<>>]
    /\ exit_status = "running"
    /\ stdout = <<>>
    /\ raised = ""
    /\ messages = <<>>
    /\ response_message = NoMessage
    /\ tool_idx = 0
    /\ requests = <<>>
    /\ executed = <<>>
    /\ env = IdleDoc
    /\ pdf_text = <<>>
    /\ pdf_messages = <<>>
    /\ page_images = <<>>
    /\ pdf_visual_messages = <<>>
    /\ image_messages = <<>>
    /\ image_data_url = NoDataUrl
    /\ max_pages = 0
    /\ bounded = <<>>
    /\ IdleHttp /\ IdleSummary /\ IdleGateway

NextScript ==
    \/ EntryWithoutLog /\ UNCHANGED otherThanScript
    \/ EntryWithLog /\ UNCHANGED otherThanScript
    \/ StartDemonstration /\ UNCHANGED otherThanScript
    \/ HeadingWriteFails /\ UNCHANGED otherThanScript
    \/ DemonstrationReturns /\ UNCHANGED otherThanScript
    \/ DemonstrationRaises /\ UNCHANGED otherThanScript
    \/ DemonstrationInterrupted /\ UNCHANGED otherThanScript
    \/ MainReturns /\ UNCHANGED otherThanScript
    \/ ExitAfterMain /\ UNCHANGED otherThanScript
    \/ ExitOnException /\ UNCHANGED otherThanScript

SpecScript == InitScript /\ [][NextScript]_vars

-----------------------------------------------------------------------------
(* Claims about main and the entry points                                  *)

\* the texts of the lines of one kind in an output, in order
NamesIn(out, kind) ==
    LET sel == SelectSeq(out, LAMBDA l : l.kind = kind)
    IN  [i \in 1..Len(sel) |-> sel[i].s]

\* what the run wrote, the log file first
MainOutput == log_file.content \o stdout

\* no KeyboardInterrupt arrived and no write to the log file failed
NothingEscaped == raised \notin {"KeyboardInterrupt", "OSError"}

\* the demonstrations that have returned or been reported as failed
Finished == IF demo = 0 THEN 0 ELSE demo - 1

\* C11: whichever demonstrations of a main fail, every demonstration is
\* started exactly once and in the fixed order of the script, each failure
\* is reported under the demonstration's name, and main returns normally.
C11_EveryDemonstrationRunsOnceInOrder ==
    (script \in Scripts /\ pc # "entry" /\ NothingEscaped) =>
        /\ started = SubSeq(Demonstrations(script), 1, Len(started))
        /\ Len(started) = IF pc = "demo" THEN demo ELSE demo - 1
        /\ NamesIn(MainOutput, "heading") = started
        /\ NamesIn(MainOutput, "Error in") = failures
        /\ pc \in {"main", "demo", "main_returned", "exited"}
        /\ pc \in {"main_returned", "exited"} =>
               started = Demonstrations(script)
        /\ pc = "exited" => exit_status = "0"

C11_Witness ==
    /\ script = "completions.py"
    /\ pc = "exited"
    /\ exit_status = "0"
    /\ failures = <<"get_completion_4", "PDF visual analysis">>

\* the kinds of line a demonstration, its failure report and the HTTP
\* logging produce
DemonstrationKinds ==
    {"heading", "output", "Error in", "", "REQUEST DETAILS:",
     "RESPONSE DETAILS:"}

Produced(out) == SelectSeq(out, LAMBDA l : l.kind \in DemonstrationKinds)

\* everything the demonstrations have written so far is in this output
HoldsAllOutput(out) ==
    /\ NamesIn(out, "heading") = started
    /\ NamesIn(out, "Error in") = failures
    /\ Len(NamesIn(out, "output")) = Finished - Len(failures)
    /\ Len(NamesIn(out, "REQUEST DETAILS:")) =
           IF LogsHttp(script) THEN Finished ELSE 0
    /\ Len(NamesIn(out, "RESPONSE DETAILS:")) =
           IF LogsHttp(script) THEN Finished - Len(failures) ELSE 0

\* C15: with the log-file flag everything the demonstrations print, their
\* failure reports and the HTTP logging included, is in the log file and
\* none of it on the original standard output; without the flag all of it
\* is on standard output.
C15_LogFileTakesAllOutput ==
    (script \in Scripts /\ pc # "entry") =>
        IF Redirects
        THEN /\ Produced(stdout) = <<>>
             /\ HoldsAllOutput(log_file.content)
        ELSE /\ log_file.content = <<>>
             /\ HoldsAllOutput(stdout)

C15_Witness ==
    /\ Redirects
    /\ pc = "exited"
    /\ exit_status = "0"
    /\ Len(failures) = 2

\* C19: with the log-file flag sys.stdout is the original stream again on
\* every exit path (main returned, the log file could not be opened, an
\* exception left main), and the confirmation 'Output written to' is on
\* the original stream exactly when no exception escaped.
C19_StdoutRestoredOnEveryExit ==
    Redirects =>
        /\ exit_status # "running" => sys_stdout = "original_stdout"
        /\ exit_status # "running" =>
               (HasLine("Output written to") <=> raised = "")
        /\ HasLine("Output written to") => exit_status = "0"
        /\ NamesIn(log_file.content, "Output written to") = <<>>

C19_Witness ==
    /\ Redirects
    /\ pc = "exited"
    /\ raised = "KeyboardInterrupt"
    /\ log_file.state = "closed"
    /\ Len(started) = 3

-----------------------------------------------------------------------------
(* A failing Tool Call, checked under SpecTools.                           *)

\* a Tool Call whose arguments are no JSON text, or a get_weather call
\* whose arguments are no object with a city and a country
CannotExecute(tc) ==
    \/ tc.arguments.kind = "malformed"
    \/ /\ tc.name = "get_weather"
       /\ \/ tc.arguments.kind # "object"
          \/ ~tc.arguments.has_city
          \/ ~tc.arguments.has_country

\* the position of the first Tool Call that cannot be executed, 0 if none
FirstFailing ==
    LET bad == { i \in 1..Len(CarriedCalls) : CannotExecute(CarriedCalls[i]) }
    IN  IF bad = {} THEN 0
        ELSE CHOOSE i \in bad : \A j \in bad : i <= j

\* C20: when parsing the arguments or running the tool fails at the k-th
\* Tool Call, the loop stops there: no Tool Result for that call or a
\* later one, no second gateway call, and main reports the failure as a
\* failure of the tool-calling demonstration.
C20_FailingToolCallStopsProcessing ==
    (Responded /\ FirstFailing # 0) =>
        LET k == FirstFailing
            before == { i \in 1..(k - 1) : CarriedCalls[i].name = "get_weather" }
        IN  /\ tool_idx <= k
            /\ Cardinality(LinesOf("Calling")) <= k
            /\ Len(ToolResults(messages)) <= Cardinality(before)
            /\ Len(executed) <= Cardinality(before)
            /\ Len(requests) = 1
            /\ pc \in {"responded", "loop", "raised", "reported"}
            /\ pc \in {"raised", "reported"} =>
                   /\ tool_idx = k
                   /\ raised \in {"JSONDecodeError", "KeyError", "TypeError"}
            /\ pc = "reported" =>
                   \E i \in 1..Len(stdout) :
                       stdout[i] = Line("Error in tools_call_example",
                                        raised, 0, 0)

C20_Witness ==
    /\ pc = "reported"
    /\ raised = "JSONDecodeError"
    /\ Len(CarriedCalls) = 2
    /\ FirstFailing = 1
    /\ ~CannotExecute(CarriedCalls[2])
    /\ CarriedCalls[2].name = "get_weather"

-----------------------------------------------------------------------------
(* responses_text.py : extract_reasoning_summary (SpecSummary)             *)

\* the texts a summary fragment may carry
FragmentTexts == {"Step 1...", "Step 2...", ""}

\* The items of response.output: a reasoning item carries a summary, a
\* list of fragments; a message item carries content.
ReasoningItems ==
    { [type |-> "reasoning", summary |-> f, content |-> ""]
        : f \in SeqsUpTo(FragmentTexts, MaxFragments) }
MessageItems == { [type |-> "message", summary |-> <<>>, content |-> "x = -3.75"] }
Outputs == SeqsUpTo(ReasoningItems \cup MessageItems, MaxItems)

\* a join that closes every text with the separator
JoinWithTrailingSeparator(sep, texts) ==
    LET F[i \in 0..Len(texts)] ==
            IF i = 0 THEN "" ELSE F[i - 1] \o texts[i] \o sep
    IN  F[Len(texts)]

\* sep.join(texts)
Join(sep, texts) ==
    LET F[i \in 0..Len(texts)] ==
            IF i = 0 THEN ""
            ELSE IF i = 1 THEN texts[1]
            ELSE F[i - 1] \o sep \o texts[i]
    IN  F[Len(texts)]

\* s.text for r in response.output if r.type == "reasoning"
\*        for s in r.summary
GeneratedTexts(output) ==
    LET G[i \in 0..Len(output)] ==
            IF i = 0 THEN <<>>
            ELSE IF output[i].type = "reasoning"
            THEN G[i - 1] \o output[i].summary
            ELSE G[i - 1]
    IN  G[Len(output)]

extract_reasoning_summary(response) == Join(" ", GeneratedTexts(response))

\* print(extract_reasoning_summary(response))
ExtractSummary ==
    /\ pc = "response"
    /\ summary' = extract_reasoning_summary(response_output)
    /\ stdout' = Append(stdout,
                    Line("summary", extract_reasoning_summary(response_output), 0, 0))
    /\ pc' = "extracted"
    /\ UNCHANGED <<response_output, raised>>

InitSummary ==
    /\ pc = "response"
    /\ response_output \in Outputs
    /\ summary = ""
    /\ stdout = <<>>
    /\ raised = ""
    /\ messages = <<>>
    /\ response_message = NoMessage
    /\ tool_idx = 0
    /\ requests = <<>>
    /\ executed = <<>>
    /\ env = IdleDoc
    /\ pdf_text = <<>>
    /\ pdf_messages = <<>>
    /\ page_images = <<>>
    /\ pdf_visual_messages = <<>>
    /\ image_messages = <<>>
    /\ image_data_url = NoDataUrl
    /\ max_pages = 0
    /\ bounded = <<>>
    /\ IdleScript /\ IdleHttp /\ IdleGateway

NextSummary ==
    ExtractSummary
      /\ UNCHANGED <<messages, response_message, tool_idx, requests, executed,
                     docVars, boundVars, scriptVars, httpVars, gatewayVars>>

SpecSummary == InitSummary /\ [][NextSummary]_vars

\* the fragments of the reasoning items of an output, in response order
RECURSIVE ReasoningFragments(_)
ReasoningFragments(output) ==
    IF output = <<>> THEN <<>>
    ELSE (IF Head(output).type = "reasoning" THEN Head(output).summary
          ELSE <<>>) \o ReasoningFragments(Tail(output))

\* the texts with one space between each two neighbours
RECURSIVE SpaceSeparated(_)
SpaceSeparated(texts) ==
    IF texts = <<>> THEN ""
    ELSE IF Len(texts) = 1 THEN texts[1]
    ELSE texts[1] \o " " \o SpaceSeparated(Tail(texts))

RECURSIVE TotalLength(_)
TotalLength(texts) ==
    IF texts = <<>> THEN 0 ELSE Len(texts[1]) + TotalLength(Tail(texts))

\* C13: extract_reasoning_summary returns the texts of all summary
\* fragments of all 'reasoning' items, in response order, with a single
\* space between neighbours and none before the first or after the last;
\* the empty string when there is no fragment; items of other types
\* contribute nothing; ['Step 1...', 'Step 2...'] gives
\* 'Step 1... Step 2...'.
C13_SummaryIsSpaceJoinedFragments ==
    pc = "extracted" =>
        LET frags == ReasoningFragments(response_output)
        IN  /\ summary = SpaceSeparated(frags)
            /\ stdout = <<Line("summary", summary, 0, 0)>>
            /\ Len(summary) = TotalLength(frags)
                                + (IF frags = <<>> THEN 0 ELSE Len(frags) - 1)
            /\ frags = <<>> => summary = ""
            /\ frags = <<"Step 1...", "Step 2...">> =>
                   summary = "Step 1... Step 2..."

C13_Witness ==
    /\ pc = "extracted"
    /\ Len(response_output) = 2
    /\ response_output[1].type = "message"
    /\ response_output[2] = [type |-> "reasoning",
                             summary |-> <<"Step 1...", "Step 2...">>,
                             content |-> ""]
    /\ summary = "Step 1... Step 2..."

-----------------------------------------------------------------------------
(* LoggingHTTPClient.send (SpecHttp), the same in responses_text.py and    *)
(* legacy_chat_text.py                                                     *)

\* the spellings of the header names a request may carry, and str.lower()
\* on them
HeaderNames ==
    {"authorization", "Authorization", "content-type", "proxy-authorization"}
Lower(name) ==
    CASE name = "Authorization" -> "authorization"
      [] OTHER -> name

\* the values a header of a given name may carry
HeaderValues(name) ==
    CASE Lower(name) = "authorization" -> {"Bearer sk-live-1", "Bearer sk-live-2"}
      [] name = "content-type" -> {"application/json"}
      [] OTHER -> {"Basic cHJveHk="}

Headers == UNION { { [name |-> n, value |-> v] : v \in HeaderValues(n) } : n \in HeaderNames }
HeaderLists == SeqsUpTo(Headers, MaxHeaders)

\* request.content: nothing, a JSON text, bytes that are no JSON text
RequestContents == {"", "{\"model\": \"gpt-4o\"}", "not json"}
IsJson(content) == content \in {"{\"model\": \"gpt-4o\"}", "{\"id\": \"resp_1\"}"}

HttpRequests ==
    [method : {"POST"}, url : {"https://api.openai.com/v1/responses"},
     headers : HeaderLists, content : RequestContents]

HttpResponses ==
    [status_code : {200, 401},
     headers : {<< [name |-> "content-type", value |-> "application/json"] >>},
     body : {"{\"id\": \"resp_1\"}", "upstream error", "caf\\xe9 error"}]

\* response bodies whose bytes are no text in the encoding json.loads
\* detects: decoding them raises a UnicodeDecodeError, which is a
\* ValueError and no json.JSONDecodeError
Undecodable(body) == body = "caf\\xe9 error"

\* a comparison that takes only the lower-case spelling for the header
IsAuthorizationCaseSensitive(name) == name = "authorization"
\* if name.lower() == "authorization":
IsAuthorization(name) == Lower(name) = "authorization"

\* for name, value in request.headers.items(): print(f"  {name}: ...")
HeaderLog(headers) ==
    [i \in 1..Len(headers) |->
        IF IsAuthorization(headers[i].name)
        THEN Line("header", headers[i].name \o ": Bearer ***masked***", 0, 0)
        ELSE Line("header", headers[i].name \o ": " \o headers[i].value, 0, 0)]

\* if request.content: try: ... print("Request Body:"); print(json.dumps(
\* parsed_json, indent=2)) except ...: print(f"Request Body (raw): ...")
RequestBodyLog(content) ==
    IF content = "" THEN <<>>
    ELSE IF IsJson(content)
    THEN <<Line("Request Body:", "", 0, 0), Line("json", content, 2, 0)>>
    ELSE <<Line("Request Body (raw):", content, 0, 0)>>

\* send, up to the call of super().send
SendLogRequest ==
    /\ pc = "send"
    /\ stdout' = stdout
         \o <<Line("=", "", 80, 0), Line("REQUEST DETAILS:", "", 0, 0),
              Line("Method:", http_request.method, 0, 0),
              Line("URL:", http_request.url, 0, 0),
              Line("Headers:", "", 0, 0)>>
         \o HeaderLog(http_request.headers)
         \o RequestBodyLog(http_request.content)
         \o <<Line("-", "", 40, 0)>>
    /\ pc' = "super_send"
    /\ UNCHANGED <<http_request, forwarded, http_response, raised>>

\* response = super().send(request, **kwargs): the transport answers or
\* raises
SuperSend ==
    /\ pc = "super_send"
    /\ forwarded' = Append(forwarded, http_request)
    /\ \/ \E r \in HttpResponses :
             /\ http_response' = r
             /\ pc' = "answered"
             /\ raised' = raised
       \/ /\ raised' = "ConnectError"
          /\ pc' = "raised"
          /\ http_response' = http_response
    /\ UNCHANGED <<http_request, stdout>>

\* try: response_json = response.json(); print("Response Body:"); ...
\* except json.JSONDecodeError: print(f"Response Body (raw): ...")
ResponseBodyLog(body) ==
    IF IsJson(body)
    THEN <<Line("Response Body:", "", 0, 0), Line("json", body, 2, 0)>>
    ELSE <<Line("Response Body (raw):", body, 0, 0)>>

\* print("RESPONSE DETAILS:") ... the response's status and headers
ResponseHeadLog(response) ==
    <<Line("RESPONSE DETAILS:", "", 0, 0),
      Line("Status Code:", "", response.status_code, 0),
      Line("Response Headers:", "", 0, 0)>>
      \o [i \in 1..Len(response.headers) |->
            Line("response header",
                 response.headers[i].name \o ": " \o response.headers[i].value,
                 0, 0)]

\* send, from the response to `return response`: response.json() is
\* inside `try ... except json.JSONDecodeError`, so any other exception
\* it raises leaves send
SendLogResponse ==
    /\ pc = "answered"
    /\ IF Undecodable(http_response.body)
       THEN /\ stdout' = stdout \o ResponseHeadLog(http_response)
            /\ raised' = "UnicodeDecodeError"
            /\ pc' = "raised"
       ELSE /\ stdout' = stdout
                 \o ResponseHeadLog(http_response)
                 \o ResponseBodyLog(http_response.body)
                 \o <<Line("=", "", 80, 0), Line("", "", 0, 0)>>
            /\ raised' = raised
            /\ pc' = "returned"
    /\ UNCHANGED <<http_request, forwarded, http_response>>

InitHttp ==
    /\ pc = "send"
    /\ http_request \in HttpRequests
    /\ forwarded = <<>>
    /\ http_response = [status_code |-> 0, headers |-> <<>>, body |-> ""]
    /\ stdout = <<>>
    /\ raised = ""
    /\ messages = <<>>
    /\ response_message = NoMessage
    /\ tool_idx = 0
    /\ requests = <<>>
    /\ executed = <<>>
    /\ env = IdleDoc
    /\ pdf_text = <<>>
    /\ pdf_messages = <<>>
    /\ page_images = <<>>
    /\ pdf_visual_messages = <<>>
    /\ image_messages = <<>>
    /\ image_data_url = NoDataUrl
    /\ max_pages = 0
    /\ bounded = <<>>
    /\ IdleScript /\ IdleSummary /\ IdleGateway

otherThanHttp ==
    <<messages, response_message, tool_idx, requests, executed, docVars,
      boundVars, scriptVars, summaryVars, gatewayVars>>

NextHttp ==
    \/ SendLogRequest /\ UNCHANGED otherThanHttp
    \/ SuperSend /\ UNCHANGED otherThanHttp
    \/ SendLogResponse /\ UNCHANGED otherThanHttp

SpecHttp == InitHttp /\ [][NextHttp]_vars

\* the header lines of the request log, in order
LoggedHeaders ==
    LET sel == SelectSeq(stdout, LAMBDA l : l.kind = "header")
    IN  [i \in 1..Len(sel) |-> sel[i].s]

\* the spellings of the authorization header's name
AuthorizationSpellings == {"authorization", "Authorization"}

\* two header lists that differ at most in the values of their
\* authorization headers
DifferOnlyInAuthorization(h1, h2) ==
    /\ Len(h1) = Len(h2)
    /\ \A i \in 1..Len(h1) :
          /\ h1[i].name = h2[i].name
          /\ h1[i].name \notin AuthorizationSpellings =>
                 h1[i].value = h2[i].value

\* C18: the request log shows the authorization header, in any spelling of
\* its name, with a fixed masked value; every other header is shown with
\* its value; two requests differing only in the authorization value give
\* the same logged header lines.
C18_AuthorizationMasked ==
    (http_request.method # "" /\ pc # "send") =>
        LET h == http_request.headers
        IN  /\ Len(LoggedHeaders) = Len(h)
            /\ \A i \in 1..Len(h) :
                  LoggedHeaders[i] =
                      IF h[i].name \in AuthorizationSpellings
                      THEN h[i].name \o ": Bearer ***masked***"
                      ELSE h[i].name \o ": " \o h[i].value
            /\ \A h2 \in HeaderLists :
                  DifferOnlyInAuthorization(h, h2) =>
                      [i \in 1..Len(h2) |-> HeaderLog(h2)[i].s] = LoggedHeaders

C18_Witness ==
    /\ pc = "returned"
    /\ Len(http_request.headers) = 2
    /\ http_request.headers[1] =
           [name |-> "Authorization", value |-> "Bearer sk-live-1"]
    /\ http_request.headers[2].name = "proxy-authorization"
    /\ LoggedHeaders[1] = "Authorization: Bearer ***masked***"

-----------------------------------------------------------------------------
(* The gateway functions and their callers (SpecGateway): main of          *)
(* completions.py, timed_comparison_test, basic_text_chat.                 *)

\* test_messages = [{"role": "system", ...}, {"role": "user", ...}]
TestMessages ==
    << [role |-> "system", content |-> "You are a helpful assistant."],
       [role |-> "user", content |-> "say hello and comment on the weather."] >>

\* for _ in range(4):
runs == 4

\* The list objects a script passes as `messages`, by the variable that
\* holds them, with their values; the multimodal Conversations stand for
\* what the builders return when the files are there.
Conversations(s) ==
    CASE s = "completions.py" ->
           [test_messages |-> TestMessages,
            pdf_messages |->
              << [role |-> "user", content |-> "summarize the PDF text"] >>,
            pdf_visual_messages |->
              << [role |-> "user", content |-> "summarize the PDF pages"] >>,
            image_messages |->
              << [role |-> "user", content |-> "analyze the image"] >>]
      [] s = "completions_timed_compare.py" ->
           [test_messages |-> TestMessages]
      [] OTHER ->
           [question |-> << [role |-> "user", content |-> "What is 2+2?"] >>]

Call(f, object) == [function |-> f, object |-> object]

\* the gateway calls a script makes, in the order of its code
Program(s) ==
    CASE s = "completions.py" ->
           << Call("get_completion_4", "test_messages"),
              Call("get_completion_5_oneshot", "test_messages"),
              Call("get_completion_4_multimodal", "pdf_messages"),
              Call("get_completion_4_multimodal", "pdf_visual_messages"),
              Call("get_completion_4_multimodal", "image_messages") >>
      [] s = "completions_timed_compare.py" ->
           [i \in 1..(2 * runs) |->
              IF i <= runs THEN Call("get_completion_4o", "test_messages")
              ELSE Call("get_completion_5_oneshot", "test_messages")]
      [] OTHER -> << Call("basic_text_chat", "question") >>

\* model= of each gateway function's create call
ModelOf(f) ==
    CASE f \in {"get_completion_4", "get_completion_4o",
                "get_completion_4_multimodal"} -> "gpt-4.1-mini"
      [] f = "get_completion_5_oneshot" -> "gpt-5-mini"
      [] OTHER -> "gpt-4o"

\* a reasoning call that keeps the temperature of the function it was
\* copied from
KnobsWithStrayTemperature(f) ==
    CASE f \in {"get_completion_4", "get_completion_4o",
                "get_completion_4_multimodal"} -> {<<"temperature", "0">>}
      [] f = "get_completion_5_oneshot" ->
           {<<"temperature", "0">>, <<"verbosity", "low">>,
            <<"reasoning_effort", "minimal">>}
      [] OTHER -> {}

\* the keyword arguments of the create call besides model and messages
Knobs(f) ==
    CASE f \in {"get_completion_4", "get_completion_4o",
                "get_completion_4_multimodal"} -> {<<"temperature", "0">>}
      [] f = "get_completion_5_oneshot" ->
           {<<"verbosity", "low">>, <<"reasoning_effort", "minimal">>}
      [] OTHER -> {}

\* the failures of a remote call: transport, authentication, rate limit
RemoteFailures == {"APIConnectionError", "AuthenticationError", "RateLimitError"}

\* what the script is timing: only timed_comparison_test reads the clock
Timed == script = "completions_timed_compare.py"

\* main: print("=== Timed Completion Comparison ==="); try:
\* timed_comparison_test(): start_4o = time.time()
StartTimer ==
    /\ pc = "start"
    /\ stdout' = Append(stdout,
                        Line("=== Timed Completion Comparison ===", "", 0, 0))
    /\ start' = now
    /\ pc' = "calling"
    /\ UNCHANGED <<messages, requests, raised, failures, in_flight,
                   invocations, returned, now, total_4o_ms, total_5_ms, run,
                   response_4o, response_5>>

\* a caller that issues its next call while the last one is in flight
InvokeWithoutWaiting ==
    /\ pc = "calling"
    /\ run + (Len(requests) - returned - Len(failures)) <= Len(Program(script))
    /\ LET call == Program(script)[run + (Len(requests) - returned - Len(failures))]
       IN  /\ invocations' = Append(invocations, call.function)
           /\ requests' = Append(requests,
                  [function |-> call.function, model |-> ModelOf(call.function),
                   object |-> call.object, messages |-> messages[call.object],
                   knobs |-> Knobs(call.function)])
    /\ in_flight' = TRUE
    /\ UNCHANGED <<pc, messages, stdout, raised, failures, returned, now,
                   start, total_4o_ms, total_5_ms, run, response_4o,
                   response_5>>

\* the caller invokes a gateway function, which issues
\* client.chat.completions.create(model=..., messages=messages, ...)
Invoke ==
    /\ pc = "calling"
    /\ ~in_flight
    /\ run <= Len(Program(script))
    /\ LET call == Program(script)[run]
       IN  /\ invocations' = Append(invocations, call.function)
           /\ requests' = Append(requests,
                  [function |-> call.function, model |-> ModelOf(call.function),
                   object |-> call.object, messages |-> messages[call.object],
                   knobs |-> Knobs(call.function)])
    /\ in_flight' = TRUE
    /\ UNCHANGED <<pc, messages, stdout, raised, failures, returned, now,
                   start, total_4o_ms, total_5_ms, run, response_4o,
                   response_5>>

\* int((end - start) * 1000), the clock counting half milliseconds
ElapsedMs(from, to) == (to - from) \div 2

\* what the timed test keeps of the call that returned, and the clock
\* readings at the end of each loop
TimedBookkeeping(text) ==
    /\ response_4o' = IF run <= runs THEN text ELSE response_4o
    /\ response_5' = IF run > runs THEN text ELSE response_5
    /\ total_4o_ms' = IF run = runs THEN ElapsedMs(start, now') ELSE total_4o_ms
    /\ start' = IF run = runs THEN now' ELSE start
    /\ total_5_ms' = IF run = 2 * runs THEN ElapsedMs(start, now') ELSE total_5_ms
    /\ stdout' = stdout

\* a gateway function that records the reply in the list it was given
RemoteReturnsAndAppends ==
    /\ in_flight
    /\ in_flight' = FALSE
    /\ returned' = returned + 1
    /\ \E tick \in 0..MaxTick : now' = now + tick
    /\ LET call == Program(script)[run]
           text == "Hello from " \o ModelOf(call.function)
       IN  /\ messages' = [messages EXCEPT ![call.object] =
                              Append(@, [role |-> "assistant", content |-> text])]
           /\ IF Timed
              THEN TimedBookkeeping(text)
              ELSE /\ stdout' = stdout \o <<Line("response", text, 0, 0),
                                            Line("", "", 0, 0)>>
                   /\ UNCHANGED <<start, total_4o_ms, total_5_ms, response_4o,
                                  response_5>>
    /\ run' = run + 1
    /\ UNCHANGED <<pc, requests, raised, failures, invocations>>

\* the create call returns and the gateway function returns
\* response.choices[0].message to its caller, which prints it or keeps it
RemoteReturns ==
    /\ in_flight
    /\ in_flight' = FALSE
    /\ returned' = returned + 1
    /\ \E tick \in 0..MaxTick : now' = now + tick
    /\ LET call == Program(script)[run]
           text == "Hello from " \o ModelOf(call.function)
       IN  IF Timed
           THEN TimedBookkeeping(text)
           ELSE /\ stdout' = stdout \o <<Line("response", text, 0, 0),
                                         Line("", "", 0, 0)>>
                /\ UNCHANGED <<start, total_4o_ms, total_5_ms, response_4o,
                               response_5>>
    /\ run' = run + 1
    /\ UNCHANGED <<pc, messages, requests, raised, failures, invocations>>

\* a gateway function that issues its request again when the call fails
RemoteFailsAndRetries ==
    /\ in_flight
    /\ \E e \in RemoteFailures :
          \/ /\ raised' = e
             /\ in_flight' = FALSE
             /\ pc' = "propagating"
             /\ requests' = requests
          \/ /\ requests' = Append(requests, requests[Len(requests)])
             /\ UNCHANGED <<raised, in_flight, pc>>
    /\ UNCHANGED <<messages, stdout, failures, invocations, returned, now,
                   start, total_4o_ms, total_5_ms, run, response_4o,
                   response_5>>

\* the create call raises: no gateway function has a try, so the
\* exception leaves it
RemoteFails ==
    /\ in_flight
    /\ \E e \in RemoteFailures :
          /\ raised' = e
          /\ in_flight' = FALSE
          /\ pc' = "propagating"
    /\ UNCHANGED <<messages, requests, stdout, failures, invocations,
                   returned, now, start, total_4o_ms, total_5_ms, run,
                   response_4o, response_5>>

\* the name main's handler gives the failure
ErrorIn(s, f) ==
    IF s = "completions_timed_compare.py" THEN "timed_comparison_test" ELSE f

\* except Exception as e: print(f"Error in ...: {e}"); print() -- main of
\* completions.py goes on with its next demonstration; the failure of a
\* timed call has left timed_comparison_test, and main has nothing after
\* its handler
CallerHandles ==
    /\ pc = "propagating"
    /\ stdout' = stdout
         \o <<Line("Error in " \o ErrorIn(script, Program(script)[run].function),
                   raised, 0, 0),
              Line("", "", 0, 0)>>
    /\ failures' = Append(failures, raised)
    /\ raised' = ""
    /\ IF script = "completions.py"
       THEN /\ run' = run + 1
            /\ pc' = "calling"
       ELSE /\ run' = run
            /\ pc' = "reported"
    /\ UNCHANGED <<messages, requests, in_flight, invocations, returned, now,
                   start, total_4o_ms, total_5_ms, response_4o, response_5>>

\* return response_4o, total_4o_ms, response_5, total_5_ms -- or the end
\* of main
CallerReturns ==
    /\ pc = "calling"
    /\ ~in_flight
    /\ run > Len(Program(script))
    /\ pc' = "returned"
    /\ UNCHANGED <<messages, requests, stdout, raised, failures, in_flight,
                   invocations, returned, now, start, total_4o_ms, total_5_ms,
                   run, response_4o, response_5>>

\* a / b on numbers: the quotient kept as the pair it is the ratio of, a
\* ZeroDivisionError when the divisor is zero
TrueDivide(a, b) ==
    IF b = 0 THEN [exc |-> "ZeroDivisionError", num |-> 0, den |-> 0]
    ELSE [exc |-> "", num |-> a, den |-> b]

\* 1/speed_ratio
Reciprocal(r) == TrueDivide(r.den, r.num)

\* speed_ratio > 1, for a quotient of non-negative numbers
GreaterThanOne(r) == r.num > r.den

\* a guard satisfied by one positive total
ComparableEither(a, b) == a > 0 \/ b > 0
\* if total_4o_ms > 0 and total_5_ms > 0:
Comparable(a, b) == a > 0 /\ b > 0

\* The performance comparison of main: the line printed, if any, with the
\* ratio it interpolates as n / m, and the exception raised, if any.
Comparison(a, b) ==
    IF ~Comparable(a, b) THEN [out |-> <<>>, exc |-> ""]
    ELSE LET speed_ratio == TrueDivide(a, b)
         IN  IF speed_ratio.exc # ""
             THEN [out |-> <<>>, exc |-> speed_ratio.exc]
             ELSE IF GreaterThanOne(speed_ratio)
             THEN [out |-> <<Line("GPT-5-mini is faster", "",
                                  speed_ratio.num, speed_ratio.den)>>,
                   exc |-> ""]
             ELSE LET inverse == Reciprocal(speed_ratio)
                  IN  IF inverse.exc # ""
                      THEN [out |-> <<>>, exc |-> inverse.exc]
                      ELSE [out |-> <<Line("GPT-4.1-mini is faster", "",
                                           inverse.num, inverse.den)>>,
                            exc |-> ""]

\* main of completions_timed_compare.py, after timed_comparison_test has
\* returned: the two responses, the two totals, the comparison; an
\* exception raised on the way is printed by `except Exception`
MainPrintsComparison ==
    /\ pc = "returned"
    /\ Timed
    /\ LET compared == Comparison(total_4o_ms, total_5_ms)
       IN  /\ stdout' = stdout
                \o <<Line("GPT-4.1-mini Response:", "", 0, 0),
                     Line("response", response_4o, 0, 0),
                     Line("Total execution time for get_completion_4o",
                          "", runs, total_4o_ms),
                     Line("", "", 0, 0),
                     Line("GPT-5-mini Response:", "", 0, 0),
                     Line("response", response_5, 0, 0),
                     Line("Total execution time for get_completion_5_oneshot",
                          "", runs, total_5_ms),
                     Line("", "", 0, 0)>>
                \o compared.out
                \o (IF compared.exc # ""
                    THEN <<Line("Error in timed_comparison_test",
                                compared.exc, 0, 0),
                           Line("", "", 0, 0)>>
                    ELSE <<>>)
           /\ pc' = IF compared.exc # "" THEN "reported" ELSE "main_done"
    /\ UNCHANGED <<messages, requests, raised, failures, in_flight,
                   invocations, returned, now, start, total_4o_ms, total_5_ms,
                   run, response_4o, response_5>>

GatewayScripts ==
    {"completions.py", "completions_timed_compare.py", "legacy_chat_text.py"}

InitGateway ==
    /\ script \in GatewayScripts
    /\ pc = IF script = "completions_timed_compare.py" THEN "start" ELSE "calling"
    /\ messages = Conversations(script)
    /\ requests = <<>>
    /\ stdout = <<>>
    /\ raised = ""
    /\ failures = <<>>
    /\ in_flight = FALSE
    /\ invocations = <<>>
    /\ returned = 0
    /\ now \in 0..1
    /\ start = 0
    /\ total_4o_ms = 0
    /\ total_5_ms = 0
    /\ run = 1
    /\ response_4o = ""
    /\ response_5 = ""
    /\ demo = 0
    /\ started = <<>>
    /\ args = [log_file |-> ""]
    /\ sys_stdout = "original_stdout"
    /\ log_file = [state |-> "absent", content |-> <<>>]
    /\ exit_status = "running"
    /\ response_message = NoMessage
    /\ tool_idx = 0
    /\ executed = <<>>
    /\ env = IdleDoc
    /\ pdf_text = <<>>
    /\ pdf_messages = <<>>
    /\ page_images = <<>>
    /\ pdf_visual_messages = <<>>
    /\ image_messages = <<>>
    /\ image_data_url = NoDataUrl
    /\ max_pages = 0
    /\ bounded = <<>>
    /\ IdleHttp /\ IdleSummary

otherThanGateway ==
    <<response_message, tool_idx, executed, docVars, boundVars, script, demo,
      started, args, sys_stdout, log_file, exit_status, httpVars, summaryVars>>

NextGateway ==
    \/ StartTimer /\ UNCHANGED otherThanGateway
    \/ Invoke /\ UNCHANGED otherThanGateway
    \/ RemoteReturns /\ UNCHANGED otherThanGateway
    \/ RemoteFails /\ UNCHANGED otherThanGateway
    \/ CallerHandles /\ UNCHANGED otherThanGateway
    \/ CallerReturns /\ UNCHANGED otherThanGateway
    \/ MainPrintsComparison /\ UNCHANGED otherThanGateway

SpecGateway == InitGateway /\ [][NextGateway]_vars

-----------------------------------------------------------------------------
(* Claims about the gateway functions, checked under SpecGateway.          *)

\* the remote calls that have neither returned nor failed
Outstanding ==
    Len(requests) - returned - Len(failures)
      - (IF pc = "propagating" THEN 1 ELSE 0)

\* the failures printed by the callers' handlers, in order
ReportedFailures ==
    LET sel == SelectSeq(stdout, LAMBDA l : l.s \in RemoteFailures)
    IN  [i \in 1..Len(sel) |-> sel[i].s]

\* C12: every invocation of a gateway function issues exactly one remote
\* call; when that call fails (transport, authentication, rate limit) the
\* failure reaches the caller and the request is not issued again.
C12_OneRemoteCallPerInvocation ==
    script \in GatewayScripts =>
        /\ Len(requests) = Len(invocations)
        /\ \A i \in 1..Len(requests) : requests[i].function = invocations[i]
        /\ Outstanding = IF in_flight THEN 1 ELSE 0
        /\ pc = "propagating" <=> raised \in RemoteFailures
        /\ ReportedFailures = failures

C12_Witness ==
    /\ script = "completions.py"
    /\ pc = "returned"
    /\ failures = <<"RateLimitError", "APIConnectionError", "AuthenticationError">>
    /\ Len(requests) = 5

\* the gateway functions of completions.py and completions_timed_compare.py
CompletionGateways ==
    {"get_completion_4", "get_completion_4o", "get_completion_4_multimodal",
     "get_completion_5_oneshot"}

KnobNames(request) == { k[1] : k \in request.knobs }

C16_TimedCallsStrictlySequential ==
    Timed =>
        /\ Len(requests) <= 2 * runs
        /\ \A i \in 1..Len(requests) :
              /\ requests[i].model =
                     IF i <= runs THEN "gpt-4.1-mini" ELSE "gpt-5-mini"
              /\ returned >= i - 1
              /\ requests[i].messages = requests[1].messages
        /\ Outstanding \in {0, 1}
        /\ pc = "returned" => Len(requests) = 2 * runs /\ returned = 2 * runs

C16_Witness ==
    /\ Timed
    /\ pc = "returned"
    /\ Len(requests) = 8
    /\ total_4o_ms > 0
    /\ total_5_ms = 0

\* C17: a gateway call leaves the Conversation it is given as it was: a
\* list used for several calls is the same at each of them, and the
\* demonstrations that build their own Conversation each pass a list of
\* their own.
C17_ConversationUnchangedByGateway ==
    script \in GatewayScripts =>
        /\ messages = Conversations(script)
        /\ \A i \in 1..Len(requests) :
              /\ requests[i].messages = Conversations(script)[requests[i].object]
              /\ requests[i].object = "test_messages" =>
                     requests[i].messages = TestMessages
        /\ \A i, j \in 1..Len(requests) :
              (i # j /\ requests[i].function \notin
                            {"get_completion_4", "get_completion_4o",
                             "get_completion_5_oneshot"}) =>
                  requests[i].object # requests[j].object

C17_Witness ==
    /\ script = "completions.py"
    /\ pc = "returned"
    /\ returned = 5
    /\ requests[1].messages = requests[2].messages
    /\ requests[3].object # requests[4].object

-----------------------------------------------------------------------------
(* The exchange through LoggingHTTPClient.send, checked under SpecHttp.    *)

\* the request log is complete: its closing rule of 40 dashes is printed
RequestLogged == \E i \in 1..Len(stdout) : stdout[i] = Line("-", "", 40, 0)
\* a line of the response log is printed
ResponseLogStarted == HasLine("RESPONSE DETAILS:")
\* the transport has answered the request with a response
TransportAnswered == http_response.status_code # 0

\* C21: send forwards the request to the transport exactly once, after
\* the request log and before the response log, and returns the
\* transport's response; it raises only when the transport raised, and
\* then no response log is printed.
C21_SendIsTransparent ==
    http_request.method # "" =>
        /\ Len(forwarded) <= 1
        /\ forwarded # <<>> => (forwarded = <<http_request>> /\ RequestLogged)
        /\ ResponseLogStarted => (forwarded # <<>> /\ TransportAnswered)
        /\ pc = "returned" =>
               (forwarded # <<>> /\ TransportAnswered /\ raised = "")
        /\ raised # "" =>
               (~TransportAnswered /\ ~ResponseLogStarted
                  /\ raised = "ConnectError")
        /\ pc = "raised" <=> raised # ""

-----------------------------------------------------------------------------
(* The speed comparison of completions_timed_compare.main, checked under   *)
(* SpecGateway.                                                            *)

\* the 'is faster' lines printed so far
FasterLines ==
    SelectSeq(stdout, LAMBDA l : l.kind \in {"GPT-5-mini is faster",
                                             "GPT-4.1-mini is faster"})

\* C22: the comparison never divides by zero: whatever the two totals,
\* no ZeroDivisionError is raised or reported; when both totals are
\* positive exactly one 'is faster' line is printed, with a ratio whose
\* divisor is positive; when either total is zero none is printed.
C22_ComparisonNeverDividesByZero ==
    Timed =>
        /\ total_4o_ms >= 0 /\ total_5_ms >= 0
        /\ \A i \in 1..Len(stdout) : stdout[i].s # "ZeroDivisionError"
        /\ pc = "reported" => failures # <<>>
        /\ pc # "main_done" => FasterLines = <<>>
        /\ pc = "main_done" =>
               IF total_4o_ms > 0 /\ total_5_ms > 0
               THEN /\ Len(FasterLines) = 1
                    /\ FasterLines[1].m > 0
                    /\ FasterLines[1].n >= FasterLines[1].m
                    /\ FasterLines[1].kind = "GPT-5-mini is faster" <=>
                           total_4o_ms > total_5_ms
               ELSE FasterLines = <<>>

C22_Witness ==
    /\ Timed
    /\ pc = "main_done"
    /\ total_4o_ms > 0
    /\ total_5_ms = 0
    /\ FasterLines = <<>>

====
